---- MODULE Spec2Model ----
(***************************************************************************)
(* A model of quaint's PostgreSQL connector: the session (PostgreSql) with *)
(* its statement cache, cache mutex and is_healthy flag, and the owned     *)
(* transaction facade (OwnedTransaction) with the active-transaction       *)
(* gauge "prisma_client_queries_active".                                   *)
(*                                                                         *)
(* Every async fn is cut at its await points: one action runs a task from  *)
(* one await to the next.  The server and the network are the environment: *)
(* each awaited I/O ends with one of the outcomes of IoOutcomes.           *)
(***************************************************************************)
EXTENDS Integers, Sequences, FiniteSets, TLC

\* ------------------------------------------------------------------ bounds
\* Transactions whose construction may succeed in one behaviour.
MaxTx == 2
\* commit()/rollback() calls made on one transaction object.
MaxFinishCalls == 2
\* Largest statement_cache_size a URL gives.
MaxCacheSize == 2
\* key=value pairs in the query string of a connection URL.
MaxPairs == 2

\* i16::MAX, the PostgreSQL bind-parameter limit.
MaxBindVariables == 32767

\* Tasks sharing the session (Arc<dyn Queryable>).
Tasks == {"t1", "t2"}
TxIds == 1..MaxTx

\* ------------------------------------------------------------------ inputs
IsolationLevels == {"None", "SERIALIZABLE", "SNAPSHOT"}
BeginStmts == {"BEGIN"}
TransactionOptions ==
    [isolation_first : BOOLEAN, isolation_level : IsolationLevels]
NoOpts == [isolation_first |-> FALSE, isolation_level |-> "None"]

\* A parameter list &[Value], by its length and the type of its values.
ParamLens == {0, 1, 2, MaxBindVariables, MaxBindVariables + 1}
ParamTypes == {"int4"}
Params(n, ty) == [len |-> n, ty |-> IF n = 0 THEN "none" ELSE ty]
NoParams == Params(0, "none")
ParamLists == {Params(n, ty) : n \in ParamLens, ty \in ParamTypes}

Sqls == {"SELECT 1", "SELECT $1", "SELECT $1, $2"}
\* The number of $n placeholders in an SQL text.
Placeholders(sql) ==
    CASE sql = "SELECT 1" -> 0
      [] sql = "SELECT $1" -> 1
      [] sql = "SELECT $1, $2" -> 2
      [] OTHER -> 0

QueryOps == {"query_raw", "query_raw_typed", "execute_raw", "execute_raw_typed"}
TxOps == {"begin", "commit", "rollback", "drop"}
\* The Queryable operations that send one command.
CmdOps == {"raw_cmd", "set_tx_isolation_level"}
Cmds == {"SELECT 1", "SET NAMES 'UTF8'"}
SessionLevels == {"READ COMMITTED", "SERIALIZABLE", "SNAPSHOT"}

\* ------------------------------------------------------------------- state
VARIABLES
    url,              \* the query pairs of the connection URL
    url_host,         \* the host part of the connection URL, Url::host_str()
    config,           \* the tokio_postgres Config PostgreSql::new connects with
    parsed,           \* what PostgresUrl::new made of them
    conn,             \* the position of PostgreSql::new, and its result
    pg_bouncer,       \* PostgreSql.pg_bouncer
    socket_timeout,   \* PostgreSql.socket_timeout is Some(_)
    statement_cache,  \* PostgreSql.statement_cache: [capacity, entries], entries in LRU order
    evicted,          \* the SQL text of the entry the cache removed last, "" if none
    lock,             \* the task holding the statement_cache mutex, or "none"
    is_healthy,       \* PostgreSql.is_healthy
    gauge,            \* the gauge prisma_client_queries_active
    tx,               \* each OwnedTransaction object's place in its lifetime
    calls,            \* commit()/rollback() calls made on each transaction
    decs,             \* what those calls have taken off the gauge, per transaction
    pc,               \* each task's position: "idle", an awaited step, or "done"
    call,             \* the operation each task is running, with its arguments
    stmt,             \* the Statement fetch_cached returned to the task
    sent,             \* what the task's operation has sent to the server so far
    result,           \* the crate::Result the task's operation returned
    wire,             \* the statements of the running operations, in the order sent
    abandoned         \* a statement was left in flight by a dropped future

vars == <<url, url_host, config, parsed, conn, pg_bouncer, socket_timeout, statement_cache, evicted, lock, is_healthy, gauge,
          tx, calls, decs, pc, call, stmt, sent, result, wire, abandoned>>
\* The observers of the connection: no operation reads or writes them.
wireVars == <<wire, abandoned>>
sessionVars == <<url, url_host, config, parsed, conn, pg_bouncer, socket_timeout>>
cacheVars == <<statement_cache, evicted, lock, stmt>>
txVars == <<gauge, tx, calls, decs>>

\* ------------------------------------------------------------------ values
Max(a, b) == IF a >= b THEN a ELSE b

Res(kind) == [kind |-> kind, expected |-> 0, actual |-> 0]
Pending == Res("Pending")
Ok == Res("Ok")

\* One message to the server.
Stmt(via, text, n, ty) == [via |-> via, text |-> text, n |-> n, ty |-> ty]
SimpleQuery(cmd) == Stmt("simple_query", cmd, 0, "none")

NoStmt == [sql |-> "", nparams |-> 0, types |-> NoParams]
\* tx and tx_method: the transaction object the call was made on and the method
\* called on it, 0 and "none" for a call on the session itself.
NoCall == [op |-> "none", tx |-> 0, tx_method |-> "none", sql |-> "",
           params |-> NoParams, begin_stmt |-> "", opts |-> NoOpts]

\* ------------------------------------------------------- PostgresUrl::cache
UrlQueryParams ==
    [pg_bouncer : BOOLEAN, statement_cache_size : 0..MaxCacheSize,
     socket_timeout : BOOLEAN]

LruCacheNew(capacity) == [capacity |-> capacity, entries |-> <<>>]

\* Mutant of PostgresUrl::cache: pg_bouncer is not looked at.
Cache_IgnoresPgBouncer(query_params) ==
    LruCacheNew(query_params.statement_cache_size)

\* Mutant of PostgresUrl::cache: a statement_cache_size other than the default
\* wins over pg_bouncer.
Cache_SizeFirst(query_params) ==
    IF query_params.pg_bouncer /\ query_params.statement_cache_size = 100
    THEN LruCacheNew(0)
    ELSE LruCacheNew(query_params.statement_cache_size)

Cache(query_params) ==
    IF query_params.pg_bouncer
    THEN LruCacheNew(0)
    ELSE LruCacheNew(query_params.statement_cache_size)

\* ---------------------------------------------------------- PostgresUrl::new
\* Option<Duration> in seconds, Option<usize>, Option<String>.
None == [some |-> FALSE, val |-> 0]
Some(n) == [some |-> TRUE, val |-> n]
NoneStr == [some |-> FALSE, val |-> ""]
SomeStr(s) == [some |-> TRUE, val |-> s]

\* The bytes of the values the query strings below use.
Bytes(v) ==
    CASE v = "" -> <<>>
      [] v = "0" -> <<"0">>
      [] v = "2" -> <<"2">>
      [] v = "7" -> <<"7">>
      [] v = "10" -> <<"1", "0">>
      [] v = "+7" -> <<"+", "7">>
      [] v = "-1" -> <<"-", "1">>
      [] v = "x" -> <<"x">>
      [] OTHER -> <<"?">>

Digits == {"0", "1", "2", "3", "4", "5", "6", "7", "8", "9"}
DigitValue(b) ==
    CASE b = "0" -> 0 [] b = "1" -> 1 [] b = "2" -> 2 [] b = "3" -> 3
      [] b = "4" -> 4 [] b = "5" -> 5 [] b = "6" -> 6 [] b = "7" -> 7
      [] b = "8" -> 8 [] OTHER -> 9

ParseErr == [ok |-> FALSE, val |-> 0]
ParseOk(n) == [ok |-> TRUE, val |-> n]

RECURSIVE ParseDigits(_, _, _)
ParseDigits(bytes, i, acc) ==
    IF i > Len(bytes) THEN ParseOk(acc)
    ELSE IF bytes[i] \notin Digits THEN ParseErr
    ELSE ParseDigits(bytes, i + 1, acc * 10 + DigitValue(bytes[i]))

\* str::parse::<u64>() and ::<usize>(): base 10, an optional leading "+".
ParseUint(v) ==
    LET bytes == Bytes(v) IN
    IF Len(bytes) = 0 THEN ParseErr
    ELSE IF bytes[1] \in {"+", "-"} /\ Len(bytes) = 1 THEN ParseErr
    ELSE IF bytes[1] = "+" THEN ParseDigits(bytes, 2, 0)
    ELSE ParseDigits(bytes, 1, 0)

\* str::parse::<bool>()
ParseBool(v) ==
    CASE v = "true" -> [ok |-> TRUE, val |-> TRUE]
      [] v = "false" -> [ok |-> TRUE, val |-> FALSE]
      [] OTHER -> [ok |-> FALSE, val |-> FALSE]

\* The locals of parse_query_params before the loop.
DefaultQueryParams ==
    [connection_limit |-> None,
     schema |-> NoneStr,
     certificate_file |-> NoneStr,
     identity_file |-> NoneStr,
     identity_password |-> NoneStr,
     ssl_accept_mode |-> "AcceptInvalidCerts",
     ssl_mode |-> "Prefer",
     host |-> NoneStr,
     application_name |-> NoneStr,
     channel_binding |-> "Prefer",
     options |-> NoneStr,
     socket_timeout |-> None,
     connect_timeout |-> Some(5),
     pool_timeout |-> Some(10),
     pg_bouncer |-> FALSE,
     statement_cache_size |-> 100,
     max_connection_lifetime |-> None,
     max_idle_connection_lifetime |-> Some(300)]

InvalidConnectionArguments == [ok |-> FALSE, error |-> "InvalidConnectionArguments"]
Parsed(q) == [ok |-> TRUE, q |-> q]

\* Mutant of the "0" sentinel: zero seconds is a timeout like any other.
TimeoutOrNone_NoSentinel(as_int) == Some(as_int)

\* if as_int == 0 { None } else { Some(Duration::from_secs(as_int)) }
TimeoutOrNone(as_int) == IF as_int = 0 THEN None ELSE Some(as_int)

\* A numeric arm: the error of v.parse() if it failed, else the locals with
\* the number stored.
Numeric(as_int, stored) ==
    IF as_int.ok THEN Parsed(stored) ELSE InvalidConnectionArguments

PgBouncerArm(q, v) ==
    IF ParseBool(v).ok THEN Parsed([q EXCEPT !.pg_bouncer = ParseBool(v).val])
    ELSE InvalidConnectionArguments

\* Mutant of the discarding arm: an unknown key is an error.
UnknownArm_Rejects(q) == InvalidConnectionArguments

UnknownArm(q) == Parsed(q)

\* One turn of the loop over url.query_pairs().
ParsePair(q, k, v) ==
    CASE k = "pgbouncer" -> PgBouncerArm(q, v)
      [] k = "sslmode" ->
            Parsed(CASE v = "disable" -> [q EXCEPT !.ssl_mode = "Disable"]
                     [] v = "prefer" -> [q EXCEPT !.ssl_mode = "Prefer"]
                     [] v = "require" -> [q EXCEPT !.ssl_mode = "Require"]
                     [] OTHER -> q)
      [] k = "sslcert" -> Parsed([q EXCEPT !.certificate_file = SomeStr(v)])
      [] k = "sslidentity" -> Parsed([q EXCEPT !.identity_file = SomeStr(v)])
      [] k = "sslpassword" -> Parsed([q EXCEPT !.identity_password = SomeStr(v)])
      [] k = "statement_cache_size" ->
            Numeric(ParseUint(v), [q EXCEPT !.statement_cache_size = ParseUint(v).val])
      [] k = "sslaccept" ->
            Parsed(CASE v = "strict" -> [q EXCEPT !.ssl_accept_mode = "Strict"]
                     [] v = "accept_invalid_certs" ->
                            [q EXCEPT !.ssl_accept_mode = "AcceptInvalidCerts"]
                     [] OTHER -> [q EXCEPT !.ssl_accept_mode = "Strict"])
      [] k = "schema" -> Parsed([q EXCEPT !.schema = SomeStr(v)])
      [] k = "connection_limit" ->
            Numeric(ParseUint(v), [q EXCEPT !.connection_limit = Some(ParseUint(v).val)])
      [] k = "host" -> Parsed([q EXCEPT !.host = SomeStr(v)])
      [] k = "socket_timeout" ->
            Numeric(ParseUint(v), [q EXCEPT !.socket_timeout = Some(ParseUint(v).val)])
      [] k = "connect_timeout" ->
            Numeric(ParseUint(v), [q EXCEPT !.connect_timeout = TimeoutOrNone(ParseUint(v).val)])
      [] k = "pool_timeout" ->
            Numeric(ParseUint(v), [q EXCEPT !.pool_timeout = TimeoutOrNone(ParseUint(v).val)])
      [] k = "max_connection_lifetime" ->
            Numeric(ParseUint(v), [q EXCEPT !.max_connection_lifetime = TimeoutOrNone(ParseUint(v).val)])
      [] k = "max_idle_connection_lifetime" ->
            Numeric(ParseUint(v), [q EXCEPT !.max_idle_connection_lifetime = TimeoutOrNone(ParseUint(v).val)])
      [] k = "application_name" -> Parsed([q EXCEPT !.application_name = SomeStr(v)])
      [] k = "channel_binding" ->
            Parsed(CASE v = "disable" -> [q EXCEPT !.channel_binding = "Disable"]
                     [] v = "prefer" -> [q EXCEPT !.channel_binding = "Prefer"]
                     [] v = "require" -> [q EXCEPT !.channel_binding = "Require"]
                     [] OTHER -> q)
      [] k = "options" -> Parsed([q EXCEPT !.options = SomeStr(v)])
      [] OTHER -> UnknownArm(q)

RECURSIVE ParseFrom(_, _, _)
ParseFrom(pairs, i, q) ==
    IF i > Len(pairs) THEN Parsed(q)
    ELSE LET r == ParsePair(q, pairs[i].k, pairs[i].v) IN
         IF r.ok THEN ParseFrom(pairs, i + 1, r.q) ELSE r

ParseQueryParams(pairs) == ParseFrom(pairs, 1, DefaultQueryParams)

\* PostgresUrl::new, on the query pairs of a well-formed Url.
PostgresUrlNew(pairs) == ParseQueryParams(pairs)

\* The query strings: up to MaxPairs key=value pairs in any order.
Pair(k, v) == [k |-> k, v |-> v]
TimeoutKeys ==
    {"connect_timeout", "pool_timeout", "max_connection_lifetime",
     "max_idle_connection_lifetime"}
NumericKeys ==
    TimeoutKeys \cup {"socket_timeout", "statement_cache_size", "connection_limit"}
QueryPairs ==
    {Pair(k, v) : k \in TimeoutKeys \cup {"socket_timeout"}, v \in {"0", "7", "x"}}
    \cup {Pair("statement_cache_size", v) : v \in {"2", "x"}}
    \cup {Pair("connection_limit", v) : v \in {"0", "10", "+7", "-1", ""}}
    \cup {Pair("pgbouncer", v) : v \in {"true", "false", "yes"}}
    \cup {Pair("sslmode", v) : v \in {"disable", "require", "verify-full"}}
    \cup {Pair("sslaccept", v) : v \in {"strict", "accept_invalid_certs", "lenient"}}
    \cup {Pair("channel_binding", v) : v \in {"require", "maybe"}}
    \cup {Pair("host", "/var/run/postgresql"), Pair("schema", "musti"),
          Pair("application_name", "app"), Pair("sslcert", "ca.pem"),
          Pair("sslkey", "client.key")}
RECURSIVE SeqsUpTo(_, _)
SeqsUpTo(S, n) ==
    IF n = 0 THEN {<<>>}
    ELSE LET shorter == SeqsUpTo(S, n - 1) IN
         shorter \cup {Append(s, p) : s \in shorter, p \in S}
Urls == SeqsUpTo(QueryPairs, MaxPairs)

\* ---------------------------------------------------------- PostgreSql::new
\* The host part of a URL: absent, empty, or a name.
UrlHosts == {NoneStr, SomeStr(""), SomeStr("db.example.com")}

\* Mutant of PostgresUrl::host: the host of the URL goes first.
Host_UrlFirst(q, host_str) ==
    IF host_str.some /\ host_str.val # "" THEN host_str.val
    ELSE IF q.host.some THEN q.host.val ELSE "localhost"

\* PostgresUrl::host
Host(q, host_str) ==
    CASE q.host.some -> q.host.val
      [] ~q.host.some /\ host_str = SomeStr("") -> "localhost"
      [] ~q.host.some /\ ~host_str.some -> "localhost"
      [] OTHER -> host_str.val

\* PostgresUrl::to_config, by the fields taken from the query string and the
\* host.
NoConfig ==
    [host |-> "", options |-> NoneStr, application_name |-> NoneStr,
     connect_timeout |-> None, ssl_mode |-> "Prefer", channel_binding |-> "Prefer"]
ToConfig(q, host_str) ==
    [host |-> Host(q, host_str), options |-> q.options,
     application_name |-> q.application_name,
     connect_timeout |-> q.connect_timeout, ssl_mode |-> q.ssl_mode,
     channel_binding |-> q.channel_binding]

\* What PostgresUrl::new returned, before it has been called.
NotParsed == [ok |-> FALSE, error |-> "none"]
\* The position of PostgreSql::new and what it returned.
Conn(at, res) == [pc |-> at, res |-> res]

\* A constructed session, by the fields of the URL it was made from.
Init ==
    \E query_params \in UrlQueryParams :
        /\ url = <<>>
        /\ url_host = NoneStr
        /\ config = NoConfig
        /\ parsed = NotParsed
        /\ conn = Conn("session", Ok)
        /\ pg_bouncer = query_params.pg_bouncer
        /\ socket_timeout = query_params.socket_timeout
        /\ statement_cache = Cache(query_params)
        /\ evicted = ""
        /\ lock = "none"
        /\ is_healthy = TRUE
        /\ gauge = 0
        /\ tx = [x \in TxIds |-> "unborn"]
        /\ calls = [x \in TxIds |-> 0]
        /\ decs = [x \in TxIds |-> 0]
        /\ pc = [t \in Tasks |-> "idle"]
        /\ call = [t \in Tasks |-> NoCall]
        /\ stmt = [t \in Tasks |-> NoStmt]
        /\ sent = [t \in Tasks |-> <<>>]
        /\ result = [t \in Tasks |-> Pending]
        /\ wire = <<>>
        /\ abandoned = FALSE

\* ------------------------------------------------------------- perform_io
\* How an awaited network operation can end.
\* Mutant of perform_io: the operation is awaited without timeout::socket.
IoOutcomes_NoTimer == {"ok", "closed", "other"}

IoOutcomes ==
    {"ok", "closed", "other"} \cup (IF socket_timeout THEN {"timeout"} ELSE {})

IoError(outcome) ==
    CASE outcome = "closed" -> Res("ConnectionClosed")
      [] outcome = "timeout" -> Res("SocketTimeout")
      [] OTHER -> Res("DbError")

\* Mutants of perform_io: a success stores true in is_healthy; a socket
\* timeout stores false as a closed connection does.
PerformIo_Recovers(healthy, outcome) ==
    [is_healthy |-> IF outcome = "closed" THEN FALSE
                    ELSE IF outcome = "ok" THEN TRUE ELSE healthy,
     res |-> IF outcome = "ok" THEN Ok ELSE IoError(outcome)]
PerformIo_TimeoutUnhealthy(healthy, outcome) ==
    [is_healthy |-> IF outcome \in {"closed", "timeout"} THEN FALSE ELSE healthy,
     res |-> IF outcome = "ok" THEN Ok ELSE IoError(outcome)]

\* perform_io: the flag after the operation, and what the caller gets.
PerformIo(healthy, outcome) ==
    [is_healthy |-> IF outcome = "closed" THEN FALSE ELSE healthy,
     res |-> IF outcome = "ok" THEN Ok ELSE IoError(outcome)]

\* A URL before PostgresUrl::new: there is no session yet, and the session's
\* fields hold nothing until PostgreSql::new fills them.
InitUrl ==
    /\ url \in Urls
    /\ url_host \in UrlHosts
    /\ config = NoConfig
    /\ parsed = NotParsed
    /\ conn = Conn("url", Pending)
    /\ pg_bouncer = FALSE
    /\ socket_timeout = FALSE
    /\ statement_cache = LruCacheNew(0)
    /\ evicted = ""
    /\ lock = "none"
    /\ is_healthy = FALSE
    /\ gauge = 0
    /\ tx = [x \in TxIds |-> "unborn"]
    /\ calls = [x \in TxIds |-> 0]
    /\ decs = [x \in TxIds |-> 0]
    /\ pc = [t \in Tasks |-> "idle"]
    /\ call = [t \in Tasks |-> NoCall]
    /\ stmt = [t \in Tasks |-> NoStmt]
    /\ sent = [t \in Tasks |-> <<>>]
    /\ result = [t \in Tasks |-> Pending]
    /\ wire = <<>>
    /\ abandoned = FALSE

noSession == <<pg_bouncer, socket_timeout, statement_cache, evicted, lock, is_healthy,
               gauge, tx, calls, decs, pc, call, stmt, sent, result>>

\* PostgresUrl::new
UrlNew ==
    /\ conn.pc = "url"
    /\ parsed' = PostgresUrlNew(url)
    /\ conn' = IF parsed'.ok THEN Conn("parsed", Pending)
               ELSE Conn("failed", Res(parsed'.error))
    /\ UNCHANGED <<url, url_host, config, noSession>>

\* PostgreSql::new up to the connect: into_auth reads the files the URL names.
IntoAuthOutcomes ==
    {"ok"} \cup (IF parsed.q.certificate_file.some \/ parsed.q.identity_file.some
                 THEN {"tls_error"} ELSE {})
IntoAuth(outcome) ==
    /\ conn.pc = "parsed"
    /\ outcome \in IntoAuthOutcomes
    /\ conn' = IF outcome = "ok" THEN Conn("connect", Pending)
               ELSE Conn("failed", Res("TlsError"))
    /\ config' = ToConfig(parsed.q, url_host)
    /\ UNCHANGED <<url, url_host, parsed, noSession>>

\* timeout::connect(url.connect_timeout(), config.connect(tls))
ConnectOutcomes ==
    {"ok", "other"} \cup (IF parsed.q.connect_timeout.some THEN {"timeout"} ELSE {})
ConnectDone(outcome) ==
    /\ conn.pc = "connect"
    /\ outcome \in ConnectOutcomes
    /\ conn' = CASE outcome = "ok" -> Conn("init", Pending)
                 [] outcome = "timeout" -> Conn("failed", Res("ConnectTimeout"))
                 [] OTHER -> Conn("failed", Res("ConnectionError"))
    /\ UNCHANGED <<url, url_host, config, parsed, noSession>>

\* client.simple_query(session_variables), awaited as it is.
InitOutcomes == {"ok", "closed", "other"}
InitDone(outcome) ==
    /\ conn.pc = "init"
    /\ outcome \in InitOutcomes
    /\ IF outcome = "ok"
       THEN /\ conn' = Conn("session", Ok)
            /\ socket_timeout' = parsed.q.socket_timeout.some
            /\ pg_bouncer' = parsed.q.pg_bouncer
            /\ statement_cache' = Cache(parsed.q)
            /\ is_healthy' = TRUE
       ELSE /\ conn' = Conn("failed", IoError(outcome))
            /\ UNCHANGED <<socket_timeout, pg_bouncer, statement_cache, is_healthy>>
    /\ UNCHANGED <<url, url_host, config, parsed, evicted, lock, gauge, tx, calls, decs, pc, call, stmt,
                   sent, result>>

NextUrl ==
    \/ /\ UrlNew
       /\ UNCHANGED wireVars
    \/ /\ \E outcome \in {"ok", "tls_error"} : IntoAuth(outcome)
       /\ UNCHANGED wireVars
    \/ /\ \E outcome \in {"ok", "timeout", "other"} : ConnectDone(outcome)
       /\ UNCHANGED wireVars
    \/ /\ \E outcome \in {"ok", "closed", "other"} : InitDone(outcome)
       /\ UNCHANGED wireVars

SpecUrl == InitUrl /\ [][NextUrl]_vars

\* ------------------------------------------------- the Queryable operations
\* What one step of an async fn does before its next await.
Eff(kind, st, res, delta) == [kind |-> kind, stmt |-> st, res |-> res, delta |-> delta]
Skip == Eff("skip", SimpleQuery(""), Ok, 0)
Fail(res) == Eff("fail", SimpleQuery(""), res, 0)
Gauge(delta) == Eff("gauge", SimpleQuery(""), Ok, delta)

\* Mutant of raw_cmd: an unhealthy session answers without the network.
RawCmd_ShortCircuit(cmd) ==
    IF is_healthy THEN Eff("io", SimpleQuery(cmd), Ok, 0)
    ELSE Fail(Res("ConnectionClosed"))

\* PostgreSql::raw_cmd: a simple query through perform_io.
RawCmd(cmd) == Eff("io", SimpleQuery(cmd), Ok, 0)

\* Mutant of set_tx_isolation_level: Snapshot is sent like every other level.
SetTxIsolationLevel_SnapshotSent(isolation_level) ==
    RawCmd("SET TRANSACTION ISOLATION LEVEL " \o isolation_level)

\* PostgreSql::set_tx_isolation_level
SetTxIsolationLevel(isolation_level) ==
    IF isolation_level = "SNAPSHOT"
    THEN Fail(Res("InvalidIsolationLevel"))
    ELSE RawCmd("SET TRANSACTION ISOLATION LEVEL " \o isolation_level)

\* PostgreSql::server_reset_query
ServerResetQuery ==
    IF pg_bouncer THEN RawCmd("DEALLOCATE ALL") ELSE Skip

\* Queryable::server_reset_query_owned, as the session answers it.
ServerResetQueryOwned == ServerResetQuery

\* -------------------------------------------------------- OwnedTransaction
\* Mutants of OwnedTransaction::new: the gauge incremented before the reset
\* query; the two isolation steps exchanged; the reset query before the begin
\* statement.
BeginScript_GaugeBeforeReset ==
    <<"isolation_first", "begin_stmt", "isolation_after",
      "increment_gauge", "server_reset_query_owned">>
BeginScript_IsolationSwapped ==
    <<"isolation_after", "begin_stmt", "isolation_first",
      "server_reset_query_owned", "increment_gauge">>
BeginScript_ResetBeforeBegin ==
    <<"isolation_first", "server_reset_query_owned", "begin_stmt",
      "isolation_after", "increment_gauge">>

\* OwnedTransaction::new, step by step.
BeginScript ==
    <<"isolation_first", "begin_stmt", "isolation_after",
      "server_reset_query_owned", "increment_gauge">>

\* Mutant of OwnedTransaction::commit: the gauge decremented after the command.
CommitScript_CommandFirst == <<"COMMIT", "decrement_gauge">>

\* OwnedTransaction::commit and OwnedTransaction::rollback
CommitScript == <<"decrement_gauge", "COMMIT">>
RollbackScript == <<"decrement_gauge", "ROLLBACK">>

\* Releasing an OwnedTransaction: the struct has no Drop implementation, so
\* only its field, the Arc, is released.
DropScript == <<>>

RawCmdScript == <<"simple_query">>
SetTxIsolationLevelScript == <<"set_tx_isolation_level">>
Script(c) ==
    CASE c.op = "begin" -> BeginScript
      [] c.op = "commit" -> CommitScript
      [] c.op = "rollback" -> RollbackScript
      [] c.op = "raw_cmd" -> RawCmdScript
      [] c.op = "set_tx_isolation_level" -> SetTxIsolationLevelScript
      [] OTHER -> DropScript

StageEff(c, stage) ==
    CASE stage = "isolation_first" ->
            IF c.opts.isolation_first /\ c.opts.isolation_level # "None"
            THEN SetTxIsolationLevel(c.opts.isolation_level)
            ELSE Skip
      [] stage = "begin_stmt" -> RawCmd(c.begin_stmt)
      [] stage = "isolation_after" ->
            IF ~c.opts.isolation_first /\ c.opts.isolation_level # "None"
            THEN SetTxIsolationLevel(c.opts.isolation_level)
            ELSE Skip
      [] stage = "server_reset_query_owned" -> ServerResetQueryOwned
      [] stage = "increment_gauge" -> Gauge(1)
      [] stage = "decrement_gauge" -> Gauge(-1)
      [] stage = "COMMIT" -> RawCmd("COMMIT")
      [] stage = "ROLLBACK" -> RawCmd("ROLLBACK")
      [] stage = "simple_query" -> RawCmd(c.sql)
      [] stage = "set_tx_isolation_level" -> SetTxIsolationLevel(c.opts.isolation_level)
      [] OTHER -> Skip

StageIndex(script, stage) == CHOOSE i \in 1..Len(script) : script[i] = stage

\* Runs operation c from its k-th step up to its next await, or to its return.
RECURSIVE RunFrom(_, _, _, _)
RunFrom(c, k, g, log) ==
    IF k > Len(Script(c))
    THEN [pc |-> "done", res |-> Ok, gauge |-> g, sent |-> log]
    ELSE LET e == StageEff(c, Script(c)[k])
         IN CASE e.kind = "skip" -> RunFrom(c, k + 1, g, log)
              [] e.kind = "gauge" -> RunFrom(c, k + 1, g + e.delta, log)
              [] e.kind = "fail" ->
                    [pc |-> "done", res |-> e.res, gauge |-> g, sent |-> log]
              [] OTHER ->
                    [pc |-> Script(c)[k], res |-> Pending, gauge |-> g,
                     sent |-> Append(log, e.stmt)]

\* Mutant of OwnedTransaction::new: the object is handed out whatever the
\* outcome.
TxAfter_ObjectOnFailure(c, r) ==
    CASE c.op = "begin" /\ r.pc # "done" -> "constructing"
      [] c.op = "begin" /\ r.pc = "done" -> "live"
      [] c.op = "drop" -> "dropped"
      [] OTHER -> tx[c.tx]

\* The transaction object after a step of an operation on it.
TxAfter(c, r) ==
    CASE c.op = "begin" /\ r.pc # "done" -> "constructing"
      [] c.op = "begin" /\ r.pc = "done" ->
            IF r.res = Ok THEN "live" ELSE "unborn"
      [] c.op = "drop" -> "dropped"
      [] OTHER -> tx[c.tx]

Apply(t, c, r) ==
    /\ pc' = [pc EXCEPT ![t] = r.pc]
    /\ call' = [call EXCEPT ![t] = c]
    /\ sent' = [sent EXCEPT ![t] = r.sent]
    /\ result' = [result EXCEPT ![t] = r.res]
    /\ gauge' = r.gauge
    /\ tx' = IF c.tx \in TxIds THEN [tx EXCEPT ![c.tx] = TxAfter(c, r)] ELSE tx
    /\ decs' = IF c.tx \in TxIds
               THEN [decs EXCEPT ![c.tx] =
                        IF c.op # "begin" THEN @ + (gauge - r.gauge) ELSE @]
               ELSE decs

Busy(x) == \E t \in Tasks : call[t].tx = x /\ pc[t] \notin {"idle", "done"}

\* A task calls OwnedTransaction::new(inner, begin_stmt, tx_opts).
Begin(t, x, begin_stmt, tx_opts) ==
    /\ pc[t] = "idle"
    /\ tx[x] = "unborn"
    /\ \A y \in TxIds : y < x => tx[y] # "unborn"
    /\ LET c == [NoCall EXCEPT !.op = "begin", !.tx = x,
                               !.begin_stmt = begin_stmt, !.opts = tx_opts]
       IN Apply(t, c, RunFrom(c, 1, gauge, <<>>))
    /\ UNCHANGED <<sessionVars, cacheVars, is_healthy, calls>>

\* A task calls commit() or rollback() on a transaction object.
Finish(t, x, op) ==
    /\ pc[t] = "idle"
    /\ tx[x] = "live"
    /\ calls[x] < MaxFinishCalls
    /\ calls' = [calls EXCEPT ![x] = @ + 1]
    /\ LET c == [NoCall EXCEPT !.op = op, !.tx = x]
       IN Apply(t, c, RunFrom(c, 1, gauge, <<>>))
    /\ UNCHANGED <<sessionVars, cacheVars, is_healthy>>

\* A task releases a transaction object nobody is using.
Drop(t, x) ==
    /\ pc[t] = "idle"
    /\ tx[x] = "live"
    /\ ~Busy(x)
    /\ LET c == [NoCall EXCEPT !.op = "drop", !.tx = x]
       IN Apply(t, c, RunFrom(c, 1, gauge, <<>>))
    /\ UNCHANGED <<sessionVars, cacheVars, is_healthy, calls>>

\* The raw_cmd an operation awaits ends; the operation goes on.
TxIo(t, outcome) ==
    /\ call[t].op \in TxOps \cup CmdOps
    /\ pc[t] \notin {"idle", "done"}
    /\ outcome \in IoOutcomes
    /\ LET c == call[t]
           io == PerformIo(is_healthy, outcome)
           k == StageIndex(Script(c), pc[t])
       IN /\ is_healthy' = io.is_healthy
          /\ IF outcome = "ok"
             THEN Apply(t, c, RunFrom(c, k + 1, gauge, sent[t]))
             ELSE Apply(t, c, [pc |-> "done", res |-> io.res, gauge |-> gauge,
                               sent |-> sent[t]])
    /\ UNCHANGED <<sessionVars, cacheVars, calls>>

\* The caller takes the result; the task is free for its next call.
Return(t) ==
    /\ pc[t] = "done"
    /\ pc' = [pc EXCEPT ![t] = "idle"]
    /\ call' = [call EXCEPT ![t] = NoCall]
    /\ stmt' = [stmt EXCEPT ![t] = NoStmt]
    /\ sent' = [sent EXCEPT ![t] = <<>>]
    /\ result' = [result EXCEPT ![t] = Pending]
    /\ UNCHANGED <<sessionVars, statement_cache, evicted, lock, is_healthy, txVars>>

\* The tasks that drive transactions.
TxTasks == {"t1"}

NextTx ==
    \/ /\ \E t \in TxTasks, x \in TxIds, b \in BeginStmts, o \in TransactionOptions :
               Begin(t, x, b, o)
       /\ UNCHANGED wireVars
    \/ /\ \E t \in TxTasks, x \in TxIds, op \in {"commit", "rollback"} : Finish(t, x, op)
       /\ UNCHANGED wireVars
    \/ /\ \E t \in TxTasks, x \in TxIds : Drop(t, x)
       /\ UNCHANGED wireVars
    \/ /\ \E t \in TxTasks, outcome \in {"ok", "closed", "timeout", "other"} : TxIo(t, outcome)
       /\ UNCHANGED wireVars
    \/ /\ \E t \in TxTasks : Return(t)
       /\ UNCHANGED wireVars

SpecTx == Init /\ [][NextTx]_vars

\* --------------------------------------------------------- statement cache
\* A Statement: the handle of a server-side prepared statement.
Statement(sql, nparams, types) == [sql |-> sql, nparams |-> nparams, types |-> types]

\* The server's answer to prepare_typed(sql, types): the statement has as many
\* parameters as the text uses or as types were given, whichever is more.
ServerPrepare(sql, types) ==
    Statement(sql, Max(Placeholders(sql), types.len), types)

RemoveAt(seq, i) == SubSeq(seq, 1, i - 1) \o SubSeq(seq, i + 1, Len(seq))
LruIndex(cache, sql) ==
    {i \in 1..Len(cache.entries) : cache.entries[i].sql = sql}
LruKeys(cache) == {cache.entries[i].sql : i \in 1..Len(cache.entries)}

\* Mutant of LruCache::get_mut: a hit leaves the order of use as it was.
LruGetMut_NoTouch(cache, sql) ==
    IF LruIndex(cache, sql) = {}
    THEN [found |-> FALSE, stmt |-> NoStmt, cache |-> cache]
    ELSE LET i == CHOOSE j \in LruIndex(cache, sql) : TRUE
         IN [found |-> TRUE, stmt |-> cache.entries[i], cache |-> cache]

\* LruCache::get_mut: the entry, which becomes the most recently used (last).
LruGetMut(cache, sql) ==
    IF LruIndex(cache, sql) = {}
    THEN [found |-> FALSE, stmt |-> NoStmt, cache |-> cache]
    ELSE LET i == CHOOSE j \in LruIndex(cache, sql) : TRUE
         IN [found |-> TRUE, stmt |-> cache.entries[i],
             cache |-> [cache EXCEPT
                           !.entries = Append(RemoveAt(@, i), cache.entries[i])]]

\* Mutant of LruCache::insert: nothing is evicted.
LruInsert_NoEviction(cache, s) ==
    [cache EXCEPT !.entries = Append(@, s)]

\* LruCache::insert: the entry goes last; beyond the capacity the least
\* recently used entry (the first) is removed.
LruInsert(cache, s) ==
    LET kept == SelectSeq(cache.entries, LAMBDA e : e.sql # s.sql)
        all == Append(kept, s)
    IN [cache EXCEPT !.entries = IF Len(all) > cache.capacity THEN Tail(all) ELSE all]

\* The SQL text of the entry LruCache::insert removes, "" when it removes none.
LruEvicted(cache, s) ==
    LET kept == SelectSeq(cache.entries, LAMBDA e : e.sql # s.sql)
        all == Append(kept, s)
    IN IF Len(all) > cache.capacity THEN Head(all).sql ELSE ""

\* ------------------------------------------------- raw query and execute
\* Mutant of check_bind_variables_len: the limit itself is refused.
CheckBindVariablesLen_Inclusive(params) ==
    IF params.len >= MaxBindVariables THEN Res("QueryInvalidInput") ELSE Ok

\* PostgreSql::check_bind_variables_len
CheckBindVariablesLen(params) ==
    IF params.len > MaxBindVariables THEN Res("QueryInvalidInput") ELSE Ok

Typed(op) == op \in {"query_raw_typed", "execute_raw_typed"}
Via(op) == IF op \in {"query_raw", "query_raw_typed"} THEN "query" ELSE "execute"

\* Mutant of query_raw and execute_raw: fetch_cached is given the call's own
\* params as in the typed operations.
FetchParams_CallersOwn(c) == c.params

\* What fetch_cached is given as params: the call's own for the typed
\* operations, an empty slice for the untyped ones.
FetchParams(c) == IF Typed(c.op) THEN c.params ELSE NoParams

\* conversion::params_to_types: one type for each parameter.
ParamsToTypes(params) == [len |-> params.len, ty |-> params.ty]

\* Mutant of the parameter-count check: expected and actual exchanged.
AfterFetch_Exchanged(c, s, log) ==
    IF s.nparams # c.params.len
    THEN [pc |-> "done", sent |-> log,
          res |-> [kind |-> "IncorrectNumberOfParameters",
                   expected |-> c.params.len, actual |-> s.nparams]]
    ELSE [pc |-> "exec", res |-> Pending,
          sent |-> Append(log, Stmt(Via(c.op), c.sql, c.params.len, c.params.ty))]

\* Mutant of the query after fetch_cached: the query is put ahead of what the
\* operation sent before it.
AfterFetch_QueryFirst(c, s, log) ==
    IF s.nparams # c.params.len
    THEN [pc |-> "done", sent |-> log,
          res |-> [kind |-> "IncorrectNumberOfParameters",
                   expected |-> s.nparams, actual |-> c.params.len]]
    ELSE [pc |-> "exec", res |-> Pending,
          sent |-> <<Stmt(Via(c.op), c.sql, c.params.len, c.params.ty)>> \o log]

\* The body of a raw operation after fetch_cached returned s: the check of
\* the parameter count, then the query or execute through perform_io.
AfterFetch(c, s, log) ==
    IF s.nparams # c.params.len
    THEN [pc |-> "done", sent |-> log,
          res |-> [kind |-> "IncorrectNumberOfParameters",
                   expected |-> s.nparams, actual |-> c.params.len]]
    ELSE [pc |-> "exec", res |-> Pending,
          sent |-> Append(log, Stmt(Via(c.op), c.sql, c.params.len, c.params.ty))]

\* A task calls query_raw, query_raw_typed, execute_raw or execute_raw_typed:
\* check_bind_variables_len, then on to the lock of fetch_cached.
StartRaw(t, c) ==
    /\ pc[t] = "idle"
    /\ call' = [call EXCEPT ![t] = c]
    /\ LET chk == CheckBindVariablesLen(c.params)
       IN IF chk = Ok
          THEN /\ pc' = [pc EXCEPT ![t] = "lock"]
               /\ UNCHANGED result
          ELSE /\ pc' = [pc EXCEPT ![t] = "done"]
               /\ result' = [result EXCEPT ![t] = chk]
    /\ UNCHANGED <<sessionVars, cacheVars, is_healthy, txVars, sent>>

RawOp(t, op, sql, params) ==
    StartRaw(t, [NoCall EXCEPT !.op = op, !.sql = sql, !.params = params])

\* Mutant of fetch_cached: the guard is dropped before the prepare is awaited.
FetchCached_GuardDropped(t) ==
    /\ call[t].op \in QueryOps
    /\ pc[t] = "lock"
    /\ lock = "none"
    /\ LET c == call[t]
           got == LruGetMut(statement_cache, c.sql)
           types == ParamsToTypes(FetchParams(c))
       IN IF got.found
          THEN LET r == AfterFetch(c, got.stmt, sent[t])
               IN /\ statement_cache' = got.cache
                  /\ stmt' = [stmt EXCEPT ![t] = got.stmt]
                  /\ pc' = [pc EXCEPT ![t] = r.pc]
                  /\ sent' = [sent EXCEPT ![t] = r.sent]
                  /\ result' = [result EXCEPT ![t] = r.res]
                  /\ UNCHANGED <<lock, evicted>>
          ELSE /\ pc' = [pc EXCEPT ![t] = "prepare"]
               /\ sent' = [sent EXCEPT ![t] =
                              Append(@, Stmt("prepare", c.sql, types.len, types.ty))]
               /\ UNCHANGED <<lock, statement_cache, evicted, stmt, result>>
    /\ UNCHANGED <<sessionVars, is_healthy, txVars, call>>

\* fetch_cached once it has the mutex: a hit returns the stored handle and
\* releases the mutex; a miss sends the prepare and keeps the mutex.
FetchCached(t) ==
    /\ call[t].op \in QueryOps
    /\ pc[t] = "lock"
    /\ lock = "none"
    /\ LET c == call[t]
           got == LruGetMut(statement_cache, c.sql)
           types == ParamsToTypes(FetchParams(c))
       IN IF got.found
          THEN LET r == AfterFetch(c, got.stmt, sent[t])
               IN /\ statement_cache' = got.cache
                  /\ stmt' = [stmt EXCEPT ![t] = got.stmt]
                  /\ pc' = [pc EXCEPT ![t] = r.pc]
                  /\ sent' = [sent EXCEPT ![t] = r.sent]
                  /\ result' = [result EXCEPT ![t] = r.res]
                  /\ UNCHANGED <<lock, evicted>>
          ELSE /\ lock' = t
               /\ pc' = [pc EXCEPT ![t] = "prepare"]
               /\ sent' = [sent EXCEPT ![t] =
                              Append(@, Stmt("prepare", c.sql, types.len, types.ty))]
               /\ UNCHANGED <<statement_cache, evicted, stmt, result>>
    /\ UNCHANGED <<sessionVars, is_healthy, txVars, call>>

\* Mutant of fetch_cached: the guard outlives a prepare that failed.
PrepareDone_GuardKeptOnError(t, outcome) ==
    /\ call[t].op \in QueryOps
    /\ pc[t] = "prepare"
    /\ outcome \in IoOutcomes
    /\ LET c == call[t]
           io == PerformIo(is_healthy, outcome)
           s == ServerPrepare(c.sql, ParamsToTypes(FetchParams(c)))
           r == AfterFetch(c, s, sent[t])
       IN /\ is_healthy' = io.is_healthy
          /\ lock' = IF outcome = "ok" THEN "none" ELSE lock
          /\ IF outcome = "ok"
             THEN /\ statement_cache' = LruInsert(statement_cache, s)
                  /\ evicted' = IF LruEvicted(statement_cache, s) # ""
                                THEN LruEvicted(statement_cache, s) ELSE evicted
                  /\ stmt' = [stmt EXCEPT ![t] = s]
                  /\ pc' = [pc EXCEPT ![t] = r.pc]
                  /\ sent' = [sent EXCEPT ![t] = r.sent]
                  /\ result' = [result EXCEPT ![t] = r.res]
             ELSE /\ pc' = [pc EXCEPT ![t] = "done"]
                  /\ result' = [result EXCEPT ![t] = io.res]
                  /\ UNCHANGED <<statement_cache, evicted, stmt, sent>>
    /\ UNCHANGED <<sessionVars, txVars, call>>

\* The prepare ends: on success the handle is inserted and returned, on
\* failure the error is; either way the mutex is released.
PrepareDone(t, outcome) ==
    /\ call[t].op \in QueryOps
    /\ pc[t] = "prepare"
    /\ outcome \in IoOutcomes
    /\ LET c == call[t]
           io == PerformIo(is_healthy, outcome)
           s == ServerPrepare(c.sql, ParamsToTypes(FetchParams(c)))
           r == AfterFetch(c, s, sent[t])
       IN /\ is_healthy' = io.is_healthy
          /\ lock' = "none"
          /\ IF outcome = "ok"
             THEN /\ statement_cache' = LruInsert(statement_cache, s)
                  /\ evicted' = IF LruEvicted(statement_cache, s) # ""
                                THEN LruEvicted(statement_cache, s) ELSE evicted
                  /\ stmt' = [stmt EXCEPT ![t] = s]
                  /\ pc' = [pc EXCEPT ![t] = r.pc]
                  /\ sent' = [sent EXCEPT ![t] = r.sent]
                  /\ result' = [result EXCEPT ![t] = r.res]
             ELSE /\ pc' = [pc EXCEPT ![t] = "done"]
                  /\ result' = [result EXCEPT ![t] = io.res]
                  /\ UNCHANGED <<statement_cache, evicted, stmt, sent>>
    /\ UNCHANGED <<sessionVars, txVars, call>>

\* The query or execute ends.
ExecDone(t, outcome) ==
    /\ call[t].op \in QueryOps
    /\ pc[t] = "exec"
    /\ outcome \in IoOutcomes
    /\ LET io == PerformIo(is_healthy, outcome)
       IN /\ is_healthy' = io.is_healthy
          /\ result' = [result EXCEPT ![t] = io.res]
    /\ pc' = [pc EXCEPT ![t] = "done"]
    /\ UNCHANGED <<sessionVars, cacheVars, txVars, call, sent>>

\* The tasks that run raw operations.
QueryTasks == {"t1"}

NextQ ==
    \/ /\ \E t \in QueryTasks, op \in QueryOps, sql \in Sqls, params \in ParamLists :
               RawOp(t, op, sql, params)
       /\ UNCHANGED wireVars
    \/ /\ \E t \in QueryTasks : FetchCached(t)
       /\ UNCHANGED wireVars
    \/ /\ \E t \in QueryTasks, outcome \in {"ok", "closed", "timeout", "other"} :
               PrepareDone(t, outcome)
       /\ UNCHANGED wireVars
    \/ /\ \E t \in QueryTasks, outcome \in {"ok", "closed", "timeout", "other"} :
               ExecDone(t, outcome)
       /\ UNCHANGED wireVars
    \/ /\ \E t \in QueryTasks : Return(t)
       /\ UNCHANGED wireVars

SpecQ == Init /\ [][NextQ]_vars

\* ------------------------------------------ the session and its transactions
\* A task calls raw_cmd or set_tx_isolation_level.
StartCmd(t, c) ==
    /\ pc[t] = "idle"
    /\ Apply(t, c, RunFrom(c, 1, gauge, <<>>))
    /\ UNCHANGED <<sessionVars, cacheVars, is_healthy, calls>>

RawCmdOp(t, cmd) == StartCmd(t, [NoCall EXCEPT !.op = "raw_cmd", !.sql = cmd])

SetTxIsolationLevelOp(t, isolation_level) ==
    StartCmd(t, [NoCall EXCEPT !.op = "set_tx_isolation_level",
                               !.opts = [NoOpts EXCEPT
                                            !.isolation_level = isolation_level]])

\* Mutant of impl Queryable for OwnedTransaction: the typed query goes to the
\* untyped one.
Forward_TypedAsUntyped(method) ==
    IF method = "query_raw_typed" THEN "query_raw" ELSE method

\* impl Queryable for OwnedTransaction: the method of inner each method calls.
Forward(method) ==
    CASE method = "query_raw" -> "query_raw"
      [] method = "query_raw_typed" -> "query_raw_typed"
      [] method = "execute_raw" -> "execute_raw"
      [] method = "execute_raw_typed" -> "execute_raw_typed"
      [] method = "raw_cmd" -> "raw_cmd"
      [] OTHER -> "set_tx_isolation_level"

\* A task calls a Queryable method on a transaction object: the object hands
\* the call to the session it wraps.
TxForward(t, x, method, sql, params, isolation_level) ==
    /\ tx[x] = "live"
    /\ LET c == [NoCall EXCEPT !.op = Forward(method), !.tx = x, !.tx_method = method,
                               !.sql = sql, !.params = params,
                               !.opts = [NoOpts EXCEPT
                                            !.isolation_level = isolation_level]]
       IN IF c.op \in QueryOps THEN StartRaw(t, c) ELSE StartCmd(t, c)

SessionTasks == {"t1"}
\* The transaction objects opened on the session.
SessionTxIds == {1}
SessionSqls == {"SELECT $1"}
SessionParams == {NoParams, Params(1, "int4")}

NextS ==
    \/ /\ \E t \in SessionTasks, x \in SessionTxIds, b \in BeginStmts, o \in TransactionOptions :
               Begin(t, x, b, o)
       /\ UNCHANGED wireVars
    \/ /\ \E t \in SessionTasks, x \in SessionTxIds, op \in {"commit", "rollback"} : Finish(t, x, op)
       /\ UNCHANGED wireVars
    \/ /\ \E t \in SessionTasks, x \in SessionTxIds : Drop(t, x)
       /\ UNCHANGED wireVars
    \/ /\ \E t \in SessionTasks, cmd \in Cmds : RawCmdOp(t, cmd)
       /\ UNCHANGED wireVars
    \/ /\ \E t \in SessionTasks, l \in SessionLevels : SetTxIsolationLevelOp(t, l)
       /\ UNCHANGED wireVars
    \/ /\ \E t \in SessionTasks, op \in QueryOps, sql \in SessionSqls, params \in SessionParams :
               RawOp(t, op, sql, params)
       /\ UNCHANGED wireVars
    \/ /\ \E t \in SessionTasks, x \in SessionTxIds, m \in QueryOps, sql \in SessionSqls,
             params \in SessionParams :
               TxForward(t, x, m, sql, params, "None")
       /\ UNCHANGED wireVars
    \/ /\ \E t \in SessionTasks, x \in SessionTxIds, cmd \in Cmds :
               TxForward(t, x, "raw_cmd", cmd, NoParams, "None")
       /\ UNCHANGED wireVars
    \/ /\ \E t \in SessionTasks, x \in SessionTxIds, l \in SessionLevels :
               TxForward(t, x, "set_tx_isolation_level", "", NoParams, l)
       /\ UNCHANGED wireVars
    \/ /\ \E t \in SessionTasks, outcome \in {"ok", "closed", "timeout", "other"} :
               TxIo(t, outcome)
       /\ UNCHANGED wireVars
    \/ /\ \E t \in SessionTasks : FetchCached(t)
       /\ UNCHANGED wireVars
    \/ /\ \E t \in SessionTasks, outcome \in {"ok", "closed", "timeout", "other"} :
               PrepareDone(t, outcome)
       /\ UNCHANGED wireVars
    \/ /\ \E t \in SessionTasks, outcome \in {"ok", "closed", "timeout", "other"} :
               ExecDone(t, outcome)
       /\ UNCHANGED wireVars
    \/ /\ \E t \in SessionTasks : Return(t)
       /\ UNCHANGED wireVars

SpecS == Init /\ [][NextS]_vars

\* timeout::socket: when socket_timeout is set, the timer fires on an
\* operation that is still awaited.  The server owes no answer.
SocketTimer(t) ==
    /\ \/ TxIo(t, "timeout")
       \/ PrepareDone(t, "timeout")
       \/ ExecDone(t, "timeout")
    /\ UNCHANGED wireVars
SpecSFair == SpecS /\ \A t \in SessionTasks : WF_vars(SocketTimer(t))

\* ================================================================= claims
IoErrorKinds == {"ConnectionClosed", "SocketTimeout", "DbError"}
Born(x) == tx[x] \in {"live", "dropped"}
Indices(t, P(_)) == {i \in 1..Len(sent[t]) : P(sent[t][i])}
IsIsolationStmt(s) ==
    \E l \in IsolationLevels \ {"None"} :
        s = SimpleQuery("SET TRANSACTION ISOLATION LEVEL " \o l)
IsBeginStmt(s) == s.via = "simple_query" /\ s.text \in BeginStmts
IsDeallocate(s) == s = SimpleQuery("DEALLOCATE ALL")
IsRollback(s) == s = SimpleQuery("ROLLBACK")
IsoIdx(t) == Indices(t, IsIsolationStmt)
BeginIdx(t) == Indices(t, IsBeginStmt)
DeallocIdx(t) == Indices(t, IsDeallocate)

\* C1: every step of OwnedTransaction::new leaves the gauge as it is, except
\* the step in which new returns Ok, which adds exactly 1: a begin that fails
\* at any step (an isolation statement, the begin statement, the reset query)
\* has not touched the gauge.
C1_GaugeIncrementedLast ==
    [][\A t \in Tasks :
          (call'[t].op = "begin" /\ pc'[t] # pc[t]) =>
              gauge' = gauge + (IF pc'[t] = "done" /\ result'[t] = Ok THEN 1 ELSE 0)]_vars

\* C1 witness: a begin has failed at the reset query, after its begin
\* statement went through, while the gauge still shows only the transaction
\* begun before it.
C1_Witness ==
    \E t \in Tasks :
        /\ call[t].op = "begin" /\ pc[t] = "done"
        /\ result[t].kind = "DbError"
        /\ DeallocIdx(t) # {}
        /\ tx[1] = "live" /\ calls[1] = 0
        /\ gauge = 1

\* C2: whenever every transaction begun so far has had exactly one commit()
\* or rollback() call, the gauge is back at its starting value, 0; also while
\* the COMMIT or ROLLBACK is still in flight and after it has failed.
C2_GaugeRestoredAfterOneFinish ==
    (\A x \in TxIds : Born(x) => calls[x] = 1) => gauge = 0

\* C2 witness: a transaction's only commit() has failed and the gauge is 0.
C2_Witness ==
    \E t \in Tasks :
        /\ call[t].op = "commit" /\ pc[t] = "done"
        /\ result[t].kind \in IoErrorKinds
        /\ \A x \in TxIds : Born(x) => calls[x] = 1
        /\ Born(call[t].tx)
        /\ gauge = 0

\* C3: over a transaction's lifetime its commit() and rollback() calls take
\* at most 1 off the gauge in total, so the gauge equals the number of
\* transactions begun and not yet finished and never goes below 0.
C3_GaugeDecrementedOnce ==
    /\ \A x \in TxIds : decs[x] <= 1
    /\ gauge = Cardinality({x \in TxIds : Born(x) /\ calls[x] = 0})
    /\ gauge >= 0

\* C4: a transaction object released without commit() or rollback() having
\* run has issued a ROLLBACK and has taken 1 off the gauge.
C4_DroppedIsRolledBack ==
    \A t \in Tasks :
        (call[t].op = "drop" /\ pc[t] = "done" /\ calls[call[t].tx] = 0) =>
            /\ Indices(t, IsRollback) # {}
            /\ decs[call[t].tx] = 1

\* C5 as stated: a begin that has returned without a failed I/O, with an
\* isolation level set, has issued the isolation statement exactly once,
\* before begin_stmt if isolation_first and after it otherwise.
C5_IsolationIssuedWheneverSet ==
    \A t \in Tasks :
        (/\ call[t].op = "begin" /\ pc[t] = "done"
         /\ result[t].kind \notin IoErrorKinds
         /\ call[t].opts.isolation_level # "None") =>
            /\ Cardinality(IsoIdx(t)) = 1
            /\ \A i \in IsoIdx(t), b \in BeginIdx(t) :
                   IF call[t].opts.isolation_first THEN i < b ELSE i > b

\* C5 amended: with an isolation level other than Snapshot, begin issues the
\* isolation statement at most once, and exactly once when it succeeds: before
\* begin_stmt if isolation_first (begin_stmt is never sent without it), after
\* begin_stmt otherwise.  With no level, or with Snapshot (which fails the
\* begin at that step), no isolation statement is issued.  begin_stmt is
\* issued exactly once in every begin that gets past the first isolation step.
C5_IsolationOrder ==
    \A t \in Tasks :
        call[t].op = "begin" =>
            LET o == call[t].opts
                valid == o.isolation_level \notin {"None", "SNAPSHOT"}
                iso == IsoIdx(t)
                beg == BeginIdx(t)
            IN /\ Cardinality(iso) <= 1 /\ Cardinality(beg) <= 1
               /\ ~valid => iso = {}
               /\ \A i \in iso :
                      sent[t][i] = SimpleQuery("SET TRANSACTION ISOLATION LEVEL "
                                               \o o.isolation_level)
               /\ \A i \in iso, b \in beg :
                      IF o.isolation_first THEN i < b ELSE i > b
               /\ (o.isolation_first /\ valid /\ beg # {}) => iso # {}
               /\ (~o.isolation_first /\ iso # {}) => beg # {}
               /\ (pc[t] \in {"begin_stmt", "isolation_after", "server_reset_query_owned"}
                   \/ (pc[t] = "done" /\ result[t] = Ok)) => Cardinality(beg) = 1
               /\ (pc[t] = "done" /\ result[t] = Ok) =>
                      /\ o.isolation_level # "SNAPSHOT"
                      /\ valid => Cardinality(iso) = 1
               /\ (pc[t] = "done" /\ o.isolation_level = "SNAPSHOT"
                   /\ result[t].kind \notin IoErrorKinds) =>
                      result[t].kind = "InvalidIsolationLevel"

\* C5 witness: a begin with isolation_first false and a level has succeeded,
\* its isolation statement sent after begin_stmt.
C5_Witness ==
    \E t \in Tasks :
        /\ call[t].op = "begin" /\ pc[t] = "done" /\ result[t] = Ok
        /\ ~call[t].opts.isolation_first
        /\ sent[t][1] = SimpleQuery(call[t].begin_stmt)
        /\ Len(sent[t]) >= 2 /\ IsIsolationStmt(sent[t][2])

\* C6: in pg_bouncer mode a begin sends DEALLOCATE ALL once, as the last
\* statement of the begin, after begin_stmt and any isolation statement, and
\* the step that sends it leaves the gauge alone and the transaction under
\* construction; every successful begin has sent it.  Without pg_bouncer no
\* begin sends it.
C6_ResetInsideTransaction ==
    [][\A t \in Tasks :
          call'[t].op = "begin" =>
              LET d == {i \in 1..Len(sent'[t]) : IsDeallocate(sent'[t][i])}
                  b == {i \in 1..Len(sent'[t]) : IsBeginStmt(sent'[t][i])}
                  i == {i \in 1..Len(sent'[t]) : IsIsolationStmt(sent'[t][i])}
              IN /\ ~pg_bouncer => d = {}
                 /\ d # {} => /\ d = {Len(sent'[t])}
                              /\ b # {}
                              /\ \A j \in b \cup i : j < Len(sent'[t])
                 /\ (pc'[t] = "done" /\ result'[t] = Ok /\ pg_bouncer) => d # {}
                 /\ pc'[t] = "server_reset_query_owned" =>
                        /\ d # {}
                        /\ gauge' = gauge
                        /\ tx'[call'[t].tx] = "constructing"]_vars

\* C6 witness: a pg_bouncer session's begin has succeeded with an isolation
\* statement, and DEALLOCATE ALL was its third and last statement.
C6_Witness ==
    \E t \in Tasks :
        /\ pg_bouncer
        /\ call[t].op = "begin" /\ pc[t] = "done" /\ result[t] = Ok
        /\ Len(sent[t]) = 3 /\ IsDeallocate(sent[t][3])
        /\ gauge = 1

\* C7: a raw operation called with more than 32767 parameters is "done" with
\* QueryInvalidInput as soon as it is called: it has sent nothing, holds no
\* statement and no mutex, and its call left the cache and is_healthy as they
\* were.  A call with 32767 parameters or fewer never gets QueryInvalidInput.
C7_TooManyBindVariables ==
    /\ [](\A t \in Tasks :
            call[t].op \in QueryOps =>
                IF call[t].params.len > 32767
                THEN /\ pc[t] = "done"
                     /\ result[t] = Res("QueryInvalidInput")
                     /\ sent[t] = <<>> /\ stmt[t] = NoStmt /\ lock # t
                ELSE result[t].kind # "QueryInvalidInput")
    /\ [][\A t \in Tasks :
            (call'[t].op \in QueryOps /\ pc[t] = "idle" /\ pc'[t] # "idle"
             /\ call'[t].params.len > 32767) =>
                UNCHANGED <<statement_cache, evicted, lock, is_healthy>>]_vars

\* C7 witness: a call with 32768 parameters has been refused on a session
\* whose cache holds a statement, and the session is still healthy.
C7_Witness ==
    \E t \in Tasks :
        /\ call[t].op \in QueryOps /\ call[t].params.len = 32768
        /\ pc[t] = "done" /\ result[t] = Res("QueryInvalidInput")
        /\ statement_cache.entries # <<>>
        /\ is_healthy

\* C8: a raw operation that got a statement whose parameter count differs
\* from the number of parameters supplied is "done" with
\* IncorrectNumberOfParameters {expected: the statement's count, actual: the
\* supplied count} and has sent at most the prepare, no query or execute.
C8_IncorrectNumberOfParameters ==
    \A t \in Tasks :
        (/\ call[t].op \in QueryOps
         /\ stmt[t] # NoStmt
         /\ stmt[t].nparams # call[t].params.len) =>
            /\ pc[t] = "done"
            /\ result[t] = [kind |-> "IncorrectNumberOfParameters",
                            expected |-> stmt[t].nparams,
                            actual |-> call[t].params.len]
            /\ \A i \in 1..Len(sent[t]) : sent[t][i].via = "prepare"
            /\ Len(sent[t]) <= 1

\* C8 witness: query_raw("SELECT $1", [1, 2]) on a session that had not
\* cached the text: expected 1, actual 2, and only the prepare was sent.
C8_Witness ==
    \E t \in Tasks :
        /\ call[t].op = "query_raw" /\ call[t].sql = "SELECT $1"
        /\ call[t].params.len = 2
        /\ pc[t] = "done"
        /\ result[t] = [kind |-> "IncorrectNumberOfParameters",
                        expected |-> 1, actual |-> 2]
        /\ Len(sent[t]) = 1 /\ sent[t][1].via = "prepare"

\* C9: the cache never holds more entries than its capacity, its capacity
\* never changes, and an SQL text leaves the cache only in a step that
\* inserts another text into a full cache, and then it is the text of the
\* least recently used entry, and the only one to leave.
C9_CacheBounded ==
    /\ [](Len(statement_cache.entries) <= statement_cache.capacity)
    /\ [][/\ statement_cache'.capacity = statement_cache.capacity
          /\ \A k \in LruKeys(statement_cache) \ LruKeys(statement_cache') :
                /\ Len(statement_cache.entries) = statement_cache.capacity
                /\ k = Head(statement_cache.entries).sql
                /\ evicted' = k
                /\ Cardinality(LruKeys(statement_cache') \ LruKeys(statement_cache)) = 1
                /\ LruKeys(statement_cache) \ LruKeys(statement_cache') = {k}]_vars

\* C9 witness: a cache of capacity 2 is full after it evicted an entry.
C9_Witness ==
    /\ statement_cache.capacity = 2
    /\ Len(statement_cache.entries) = 2
    /\ evicted # ""
    /\ evicted \notin LruKeys(statement_cache)

\* C10: a pg_bouncer session has a cache of capacity 0, and a cache of
\* capacity 0 is empty in every state; on such a session every raw operation
\* that got past the lock of fetch_cached has sent a prepare first.
C10_NoCachingAtCapacityZero ==
    /\ pg_bouncer => statement_cache.capacity = 0
    /\ statement_cache.capacity = 0 =>
          /\ statement_cache.entries = <<>>
          /\ \A t \in Tasks :
                (call[t].op \in QueryOps
                 /\ (pc[t] \in {"prepare", "exec"}
                     \/ (pc[t] = "done" /\ result[t].kind # "QueryInvalidInput"))) =>
                    /\ Len(sent[t]) >= 1
                    /\ sent[t][1].via = "prepare"

\* C10 witness: on a pg_bouncer session an SQL text is being prepared again
\* right after the prepare of the same text succeeded.
C10_Witness ==
    \E t \in Tasks :
        /\ pg_bouncer /\ statement_cache.capacity = 0
        /\ call[t].op \in QueryOps /\ pc[t] = "prepare"
        /\ evicted = call[t].sql
        /\ statement_cache.entries = <<>>

\* ------------------------------------------------- claims on the URL
\* What the query string says of a key: whether it occurs, and its last value.
Has(pairs, k) == \E i \in 1..Len(pairs) : pairs[i].k = k
Last(pairs, k) ==
    pairs[CHOOSE i \in 1..Len(pairs) :
            pairs[i].k = k /\ \A j \in (i + 1)..Len(pairs) : pairs[j].k # k].v
UrlParsed == conn.pc \notin {"url", "failed"} /\ parsed.ok
PgBouncerOn == Has(url, "pgbouncer") /\ Last(url, "pgbouncer") = "true"
GivenCacheSize ==
    IF Has(url, "statement_cache_size")
    THEN ParseUint(Last(url, "statement_cache_size")).val
    ELSE 100

\* C11: for every successfully parsed URL, cache() is an empty cache of
\* capacity 0 when the URL says pgbouncer=true, whatever statement_cache_size
\* it gives and wherever the two stand in the query string, and otherwise of
\* the capacity statement_cache_size (100 when absent); the session is built
\* with that cache.
C11_CacheOfUrl ==
    UrlParsed =>
        /\ Cache(parsed.q) = LruCacheNew(IF PgBouncerOn THEN 0 ELSE GivenCacheSize)
        /\ conn.pc = "session" =>
                statement_cache = LruCacheNew(IF PgBouncerOn THEN 0 ELSE GivenCacheSize)
C11_Witness ==
    /\ conn.pc = "session"
    /\ url = <<Pair("pgbouncer", "true"), Pair("statement_cache_size", "2")>>
    /\ statement_cache = LruCacheNew(0)

KnownKeys ==
    NumericKeys \cup
    {"pgbouncer", "sslmode", "sslcert", "sslidentity", "sslpassword", "sslaccept",
     "schema", "host", "application_name", "channel_binding", "options"}
IsKnown(p) == p.k \in KnownKeys
BadNumeric == \E i \in 1..Len(url) : url[i].k \in NumericKeys /\ ~ParseUint(url[i].v).ok
BadBool == \E i \in 1..Len(url) : url[i].k = "pgbouncer" /\ url[i].v \notin {"true", "false"}
\* What the query string says a numeric field is.
Given(k) ==
    IF ~Has(url, k) THEN DefaultQueryParams[k]
    ELSE LET n == ParseUint(Last(url, k)).val IN
         CASE k = "statement_cache_size" -> n
           [] k \in TimeoutKeys -> IF n = 0 THEN None ELSE Some(n)
           [] OTHER -> Some(n)
AccessorsAgree ==
    /\ \A k \in NumericKeys : parsed.q[k] = Given(k)
    /\ parsed.q.pg_bouncer = PgBouncerOn
UnknownKeysIgnored == parsed = PostgresUrlNew(SelectSeq(url, IsKnown))

\* C19 as stated: PostgresUrl::new fails, with InvalidConnectionArguments,
\* exactly when the value of some numeric parameter is no base-10 unsigned
\* integer; otherwise it succeeds and the accessors agree with the query
\* string; an unrecognised key neither fails nor changes a field.
C19_FailsOnlyOnNumeric ==
    conn.pc # "url" =>
        /\ parsed.ok <=> ~BadNumeric
        /\ ~parsed.ok => parsed.error = "InvalidConnectionArguments"
        /\ parsed.ok => AccessorsAgree
        /\ UnknownKeysIgnored

\* C19, amended: PostgresUrl::new fails, with InvalidConnectionArguments,
\* exactly when the value of some numeric parameter is no base-10 unsigned
\* integer or the value of some pgbouncer parameter is neither "true" nor
\* "false"; otherwise it succeeds and the accessors agree with the query
\* string; an unrecognised key neither fails nor changes a field.
C19_FailsOnNumericOrBool ==
    conn.pc # "url" =>
        /\ parsed.ok <=> ~(BadNumeric \/ BadBool)
        /\ ~parsed.ok => parsed.error = "InvalidConnectionArguments"
        /\ parsed.ok => AccessorsAgree
        /\ UnknownKeysIgnored
C19_Witness ==
    /\ conn.pc = "failed"
    /\ url = <<Pair("sslkey", "client.key"), Pair("connection_limit", "-1")>>
    /\ parsed = InvalidConnectionArguments
C19_WitnessUnknownKey ==
    /\ conn.pc = "parsed"
    /\ url = <<Pair("sslkey", "client.key"), Pair("connection_limit", "+7")>>
    /\ parsed.q.connection_limit = Some(7)

\* C20: connect_timeout, pool_timeout, max_connection_lifetime and
\* max_idle_connection_lifetime read "0" as no timeout and a positive n as n
\* seconds, and are 5 s, 10 s, unset and 300 s when the parameter is absent;
\* socket_timeout is unset when absent and n seconds for every n, 0 included;
\* connection_limit and statement_cache_size keep a 0 as well.
TimeoutDefault(k) ==
    CASE k = "connect_timeout" -> Some(5)
      [] k = "pool_timeout" -> Some(10)
      [] k = "max_connection_lifetime" -> None
      [] OTHER -> Some(300)
Secs(k) == ParseUint(Last(url, k)).val
C20_ZeroSentinel ==
    UrlParsed =>
        /\ \A k \in TimeoutKeys :
                parsed.q[k] = IF ~Has(url, k) THEN TimeoutDefault(k)
                              ELSE IF Secs(k) = 0 THEN None ELSE Some(Secs(k))
        /\ parsed.q.socket_timeout =
                IF Has(url, "socket_timeout") THEN Some(Secs("socket_timeout")) ELSE None
        /\ Has(url, "connection_limit") =>
                parsed.q.connection_limit = Some(Secs("connection_limit"))
        /\ Has(url, "statement_cache_size") =>
                parsed.q.statement_cache_size = Secs("statement_cache_size")
C20_Witness ==
    /\ UrlParsed
    /\ url = <<Pair("socket_timeout", "0"), Pair("max_idle_connection_lifetime", "0")>>
    /\ parsed.q.socket_timeout = Some(0)
    /\ parsed.q.max_idle_connection_lifetime = None
    /\ parsed.q.connect_timeout = Some(5)

\* ------------------------------------------- claims on the construction
\* PostgreSql::new runs whenever it can; the timer of timeout::connect fires
\* when connect_timeout is set.  The server owes no answer.
SpecNewFair ==
    /\ InitUrl /\ [][NextUrl]_vars
    /\ WF_vars(UrlNew /\ UNCHANGED wireVars)
    /\ WF_vars((\E outcome \in {"ok", "tls_error"} : IntoAuth(outcome)) /\ UNCHANGED wireVars)
    /\ WF_vars(ConnectDone("timeout") /\ UNCHANGED wireVars)

WaitsOnNetwork == conn.pc \in {"connect", "init"}
ConnectTimeoutSet == parsed.ok /\ parsed.q.connect_timeout.some

\* C18: when connect_timeout is set, every step of PostgreSql::new that waits
\* on the network, the connect and the session-initialization batch, ends
\* with a session or an error.
C18_ConstructionBounded ==
    (WaitsOnNetwork /\ ConnectTimeoutSet) ~> (conn.pc \in {"session", "failed"})
\* The connect alone: it ends, with the next step of new or with an error.
C18_ConnectBounded ==
    (conn.pc = "connect" /\ ConnectTimeoutSet) ~> (conn.pc # "connect")

\* --------------------------------------------------- claims on the session
\* A task is awaiting a network operation.
InFlight(t) == pc[t] \notin {"idle", "lock", "done"}
IsolationCmd(isolation_level) ==
    SimpleQuery("SET TRANSACTION ISOLATION LEVEL " \o isolation_level)

\* C12: is_healthy is true in a session just created and, once false, is
\* false in every later state, whatever the session and the transactions over
\* it do.
C12_UnhealthyIsTerminal ==
    /\ is_healthy = TRUE
    /\ [][~is_healthy => ~is_healthy']_vars
C12_Witness ==
    /\ ~is_healthy
    /\ pc["t1"] = "done" /\ call["t1"].op = "commit"
    /\ result["t1"] = Ok

\* C13: the step that ends an awaited operation stores false in is_healthy
\* exactly when it ends with the connection-closed error, in the very step
\* that hands the error to the operation; every other end (success, socket
\* timeout, another error) and every other step leaves the flag as it was.
C13_ClosedSetsUnhealthy ==
    [][\A t \in Tasks :
          pc'[t] # pc[t] =>
            IF InFlight(t) /\ result'[t].kind = "ConnectionClosed"
            THEN ~is_healthy'
            ELSE is_healthy' = is_healthy]_vars
C13_Witness ==
    /\ pc["t1"] = "done" /\ call["t1"].op \in QueryOps
    /\ result["t1"].kind = "ConnectionClosed"
    /\ ~is_healthy

\* C14: on a session whose is_healthy is false, raw_cmd, commit, rollback and
\* the raw query/execute operations still send what they send on a healthy
\* one: the command at once, the prepare or the query after the cache lookup.
C14_NoShortCircuit ==
    [][\A t \in Tasks :
          ~is_healthy =>
            /\ (pc[t] = "idle" /\ pc'[t] # "idle") =>
                  /\ call'[t].op = "raw_cmd" =>
                        InFlight(t)' /\ sent'[t] = <<SimpleQuery(call'[t].sql)>>
                  /\ call'[t].op = "commit" =>
                        InFlight(t)' /\ sent'[t] = <<SimpleQuery("COMMIT")>>
                  /\ call'[t].op = "rollback" =>
                        InFlight(t)' /\ sent'[t] = <<SimpleQuery("ROLLBACK")>>
                  /\ (call'[t].op \in QueryOps
                        /\ call'[t].params.len <= MaxBindVariables) => pc'[t] = "lock"
            /\ (pc[t] = "lock" /\ pc'[t] # "lock") =>
                  \/ InFlight(t)' /\ Len(sent'[t]) = Len(sent[t]) + 1
                  \/ result'[t].kind = "IncorrectNumberOfParameters"
            /\ (pc[t] = "prepare" /\ result'[t] = Pending) =>
                  pc'[t] = "exec" /\ Len(sent'[t]) = Len(sent[t]) + 1]_vars
C14_Witness ==
    /\ ~is_healthy
    /\ pc["t1"] = "done" /\ call["t1"].op = "raw_cmd"
    /\ sent["t1"] = <<SimpleQuery(call["t1"].sql)>>
    /\ result["t1"] = Ok

\* What the session sends for a call of `method` with the arguments of c.
SentBy(method, c, s) ==
    CASE method = "raw_cmd" -> s = SimpleQuery(c.sql)
      [] method = "set_tx_isolation_level" -> s = IsolationCmd(c.opts.isolation_level)
      [] OTHER ->
            \/ s = Stmt("prepare", c.sql,
                        IF Typed(method) THEN c.params.len ELSE 0,
                        IF Typed(method) THEN c.params.ty ELSE "none")
            \/ s = Stmt(Via(method), c.sql, c.params.len, c.params.ty)

\* C15: a Queryable method called on an OwnedTransaction runs the session's
\* method of the same name on the same arguments, sends what that method
\* sends, and leaves the gauge alone.
C15_ForwardedUnchanged ==
    /\ [](\A t \in Tasks :
            call[t].tx_method # "none" =>
                /\ call[t].op = call[t].tx_method
                /\ \A i \in 1..Len(sent[t]) :
                        SentBy(call[t].tx_method, call[t], sent[t][i]))
    /\ [][\A t \in Tasks :
            (call[t].tx_method # "none" \/ call'[t].tx_method # "none") =>
                gauge' = gauge]_vars
C15_Witness ==
    /\ pc["t1"] = "done" /\ call["t1"].tx_method = "query_raw_typed"
    /\ call["t1"].tx = 1 /\ tx[1] = "live" /\ gauge = 1
    /\ sent["t1"] = <<Stmt("prepare", "SELECT $1", 1, "int4"),
                      Stmt("query", "SELECT $1", 1, "int4")>>
    /\ result["t1"] = Ok

\* C16: set_tx_isolation_level with Snapshot returns the
\* invalid-isolation-level error and sends nothing; with every other level it
\* sends the one command SET TRANSACTION ISOLATION LEVEL <level>, as raw_cmd
\* does, and returns what that command returned.
C16_SnapshotRejected ==
    \A t \in Tasks :
        (call[t].op = "set_tx_isolation_level" /\ pc[t] # "idle") =>
            IF call[t].opts.isolation_level = "SNAPSHOT"
            THEN /\ pc[t] = "done"
                 /\ result[t].kind = "InvalidIsolationLevel"
                 /\ sent[t] = <<>>
            ELSE /\ sent[t] = <<IsolationCmd(call[t].opts.isolation_level)>>
                 /\ pc[t] = "done" => result[t].kind \in {"Ok"} \cup IoErrorKinds
C16_Witness ==
    /\ pc["t1"] = "done" /\ call["t1"].op = "set_tx_isolation_level"
    /\ call["t1"].tx = 0
    /\ call["t1"].opts.isolation_level = "SNAPSHOT"
    /\ result["t1"].kind = "InvalidIsolationLevel"
    /\ sent["t1"] = <<>>

\* C17: with socket_timeout set, every network operation of the session
\* (prepare, query, execute, simple query) that is awaited ends, with its
\* result or with the socket-timeout error, and its operation returns.
C17_IoEnds ==
    \A t \in SessionTasks : (socket_timeout /\ InFlight(t)) ~> (pc[t] = "done")
C17_Witness ==
    /\ socket_timeout
    /\ pc["t1"] = "done" /\ call["t1"].op \in QueryOps
    /\ Len(sent["t1"]) = 1 /\ sent["t1"][1].via = "prepare"
    /\ result["t1"].kind = "SocketTimeout"

\* The values the three enumerated keys recognise.
Recognised(k) ==
    CASE k = "sslaccept" -> {"strict", "accept_invalid_certs"}
      [] OTHER -> {"disable", "prefer", "require"}
LastUnrecognised(k) == Has(url, k) /\ Last(url, k) \notin Recognised(k)

\* C21: in every URL whose last sslmode (channel_binding) value is not a
\* recognised one the field is Prefer, also when the key stands earlier in the
\* query string with a recognised value; an unrecognised last sslaccept value
\* gives the accept mode Strict.
C21_UnrecognisedValue ==
    UrlParsed =>
        /\ LastUnrecognised("sslmode") => parsed.q.ssl_mode = "Prefer"
        /\ LastUnrecognised("channel_binding") => parsed.q.channel_binding = "Prefer"
        /\ LastUnrecognised("sslaccept") => parsed.q.ssl_accept_mode = "Strict"
\* The part of C21 on sslaccept, and on a key that occurs once.
C21_SingleOccurrence ==
    UrlParsed =>
        /\ LastUnrecognised("sslaccept") => parsed.q.ssl_accept_mode = "Strict"
        /\ \A k \in {"sslmode", "channel_binding"} :
              (LastUnrecognised(k) /\ \A i, j \in 1..Len(url) :
                                         (url[i].k = k /\ url[j].k = k) => i = j)
                  => parsed.q[IF k = "sslmode" THEN "ssl_mode" ELSE k] = "Prefer"

\* C22: host() is the value of the host query parameter whenever the query
\* string has one, whatever the host of the URL; otherwise the host of the
\* URL, and "localhost" when that is absent or empty; PostgreSql::new
\* connects to that host.
C22_HostPrecedence ==
    UrlParsed =>
        LET expected ==
                IF Has(url, "host") THEN Last(url, "host")
                ELSE IF ~url_host.some \/ url_host.val = "" THEN "localhost"
                ELSE url_host.val
        IN /\ Host(parsed.q, url_host) = expected
           /\ conn.pc # "parsed" => config.host = expected
C22_Witness ==
    /\ conn.pc = "connect"
    /\ url = <<Pair("host", "/var/run/postgresql")>>
    /\ url_host = SomeStr("db.example.com")
    /\ config.host = "/var/run/postgresql"

\* ----------------------------------------------------- claims on the cache
Prepares(log) == {i \in 1..Len(log) : log[i].via = "prepare"}
MostRecent(cache) == cache.entries[Len(cache.entries)]

\* C23: fetch_cached on a text the cache holds returns the stored handle,
\* sends no prepare and makes the entry the most recently used; on a text it
\* does not hold it sends one prepare and, when that succeeds, returns the
\* handle and, at a capacity above 0, leaves it in the cache as the most
\* recently used entry, so that the text is a hit from then on.
C23_HitAndMiss ==
    [][\A t \in Tasks :
          /\ (pc[t] = "lock" /\ pc'[t] # "lock") =>
                IF call[t].sql \in LruKeys(statement_cache)
                THEN /\ \E i \in LruIndex(statement_cache, call[t].sql) :
                            stmt'[t] = statement_cache.entries[i]
                     /\ Prepares(sent'[t]) = {}
                     /\ MostRecent(statement_cache') = stmt'[t]
                     /\ LruKeys(statement_cache') = LruKeys(statement_cache)
                     /\ lock' = lock
                ELSE /\ pc'[t] = "prepare"
                     /\ Len(sent'[t]) = 1
                     /\ sent'[t][1].via = "prepare" /\ sent'[t][1].text = call[t].sql
                     /\ statement_cache' = statement_cache
          /\ (pc[t] = "prepare" /\ stmt'[t] # NoStmt) =>
                /\ stmt'[t].sql = call[t].sql
                /\ Cardinality(Prepares(sent'[t])) = 1
                /\ statement_cache.capacity > 0 =>
                      /\ call[t].sql \in LruKeys(statement_cache')
                      /\ MostRecent(statement_cache') = stmt'[t]]_vars
\* C23 witness: a hit in a cache of two entries: nothing but the query was
\* sent, and the entry hit is the most recently used one.
C23_Witness ==
    /\ pc["t1"] = "exec" /\ Len(sent["t1"]) = 1 /\ sent["t1"][1].via = "query"
    /\ Len(statement_cache.entries) = 2
    /\ MostRecent(statement_cache) = stmt["t1"]
    /\ evicted = ""
    /\ statement_cache.entries[1].sql = "SELECT $1, $2"
    /\ stmt["t1"].sql = "SELECT 1"


\* ------------------------------------------- concurrent callers of a session
\* The future of a task's operation is dropped at the await it stands at.  The
\* MutexGuard of fetch_cached is a local of that future: it is dropped with it.
\* An OwnedTransaction under construction is a local of new too.
Cancel(t) ==
    /\ pc[t] \notin {"idle", "done"}
    /\ pc' = [pc EXCEPT ![t] = "idle"]
    /\ call' = [call EXCEPT ![t] = NoCall]
    /\ stmt' = [stmt EXCEPT ![t] = NoStmt]
    /\ sent' = [sent EXCEPT ![t] = <<>>]
    /\ result' = [result EXCEPT ![t] = Pending]
    /\ lock' = IF lock = t THEN "none" ELSE lock
    /\ tx' = IF call[t].op = "begin" THEN [tx EXCEPT ![call[t].tx] = "unborn"] ELSE tx
    /\ UNCHANGED <<sessionVars, statement_cache, evicted, is_healthy, gauge, calls, decs>>

\* What a step adds to the connection: the statements task t sent in it.
Added(t) ==
    [i \in 1..Max(Len(sent'[t]) - Len(sent[t]), 0) |->
        [task |-> t, idx |-> Len(sent[t]) + i, stmt |-> sent'[t][Len(sent[t]) + i]]]

\* The client hands each statement whole to the connection, in the order the
\* futures are polled; the statements of ended operations are forgotten.
WireStep ==
    wire' = SelectSeq(wire, LAMBDA e : e.idx <= Len(sent'[e.task]))
               \o Added("t1") \o Added("t2")

ConcTasks == {"t1", "t2"}
ConcOps == {"query_raw", "query_raw_typed"}
ConcSqls == {"SELECT $1"}
ConcParams == {Params(1, "int4"), Params(1, "text")}
ConcCmds == {"SELECT 1"}

NextC ==
    \/ /\ \E t \in ConcTasks, op \in ConcOps, sql \in ConcSqls, params \in ConcParams :
               RawOp(t, op, sql, params)
       /\ WireStep
       /\ UNCHANGED abandoned
    \/ /\ \E t \in ConcTasks, cmd \in ConcCmds : RawCmdOp(t, cmd)
       /\ WireStep
       /\ UNCHANGED abandoned
    \/ /\ \E t \in ConcTasks : FetchCached(t)
       /\ WireStep
       /\ UNCHANGED abandoned
    \/ /\ \E t \in ConcTasks, outcome \in {"ok", "closed", "timeout", "other"} :
               PrepareDone(t, outcome)
       /\ WireStep
       /\ UNCHANGED abandoned
    \/ /\ \E t \in ConcTasks, outcome \in {"ok", "closed", "timeout", "other"} :
               ExecDone(t, outcome)
       /\ WireStep
       /\ UNCHANGED abandoned
    \/ /\ \E t \in ConcTasks, outcome \in {"ok", "closed", "timeout", "other"} :
               TxIo(t, outcome)
       /\ WireStep
       /\ UNCHANGED abandoned
    \/ /\ \E t \in ConcTasks : Cancel(t)
       /\ WireStep
       /\ UNCHANGED abandoned
    \/ /\ \E t \in ConcTasks : Return(t)
       /\ WireStep
       /\ UNCHANGED abandoned

SpecC == Init /\ [][NextC]_vars


\* ---------------------------------------------------- claims on concurrency
\* Two callers of fetch_cached with the same SQL text.
SameText(t, u) ==
    /\ t # u
    /\ call[t].op \in QueryOps
    /\ call[u].op \in QueryOps
    /\ call[t].sql = call[u].sql

\* The mutex is held exactly while a prepare is awaited: one prepare at a time.
OnePrepareInFlight ==
    /\ \A t \in Tasks : pc[t] = "prepare" <=> lock = t
    /\ \A t, u \in Tasks : pc[t] = "prepare" /\ pc[u] = "prepare" => t = u

\* C24 as stated: the mutex is held from the lookup to the insert, so at most
\* one prepare is in flight, and when a caller's prepare of a text ends while
\* another caller waits for the mutex with the same text on a session with
\* capacity > 0, the text is cached: the waiting caller gets a hit, and the one
\* prepare is the only one issued.
C24_ExactlyOnePrepare ==
    /\ []OnePrepareInFlight
    /\ [][\A t, u \in Tasks :
            (/\ SameText(t, u)
             /\ statement_cache.capacity > 0
             /\ pc[t] = "prepare"
             /\ pc[u] = "lock"
             /\ pc'[t] # "prepare")
            => call[t].sql \in LruKeys(statement_cache')]_vars

\* C24: the mutex is held from the lookup to the insert, so at most one prepare
\* is in flight; when a caller's prepare of a text succeeds while another
\* caller waits for the mutex with the same text on a session with
\* capacity > 0, the text is cached and the waiting caller gets a hit; when the
\* prepare fails or its future is dropped the cache is as before, and the
\* waiting caller issues a prepare of its own.
C24_OnePrepareWhenItSucceeds ==
    /\ []OnePrepareInFlight
    /\ [][\A t, u \in Tasks :
            (/\ SameText(t, u)
             /\ statement_cache.capacity > 0
             /\ pc[t] = "prepare"
             /\ pc[u] = "lock"
             /\ pc'[t] # "prepare")
            => IF stmt'[t] # NoStmt
               THEN call[t].sql \in LruKeys(statement_cache')
               ELSE statement_cache' = statement_cache /\ lock' = "none"]_vars

\* t1 prepared the text while t2 waited; t2 then had a hit and sent its query
\* with no prepare of its own.
C24_Witness ==
    /\ SameText("t1", "t2")
    /\ Len(wire) = 3
    /\ wire[1].task = "t1" /\ wire[1].stmt.via = "prepare"
    /\ wire[2].task = "t1" /\ wire[2].stmt.via = "query"
    /\ wire[3].task = "t2" /\ wire[3].stmt.via = "query"
    /\ stmt["t2"] = stmt["t1"]
    /\ pc["t1"] = "exec" /\ pc["t2"] = "exec"


\* The positions on the wire of the statements of task t.
WireOf(t) == {i \in 1..Len(wire) : wire[i].task = t}

Dropped(t) ==
    /\ InFlight(t)
    /\ \/ pc'[t] = "idle"
       \/ result'[t].kind = "SocketTimeout"

\* A statement whose future was dropped stays on the connection until the
\* server has answered it.
AbandonStep == abandoned' = (abandoned \/ \E t \in Tasks : Dropped(t))

\* The server answers the statements left in flight; nobody awaits the answers.
Drained ==
    /\ abandoned
    /\ abandoned' = FALSE
    /\ UNCHANGED <<sessionVars, cacheVars, is_healthy, txVars, pc, call, stmt, sent,
                   result, wire>>

NextX ==
    \/ /\ \E t \in SessionTasks, x \in SessionTxIds, b \in BeginStmts, o \in TransactionOptions :
               Begin(t, x, b, o)
       /\ AbandonStep
       /\ UNCHANGED wire
    \/ /\ \E t \in SessionTasks, x \in SessionTxIds, op \in {"commit", "rollback"} : Finish(t, x, op)
       /\ AbandonStep
       /\ UNCHANGED wire
    \/ /\ \E t \in SessionTasks, cmd \in Cmds : RawCmdOp(t, cmd)
       /\ AbandonStep
       /\ UNCHANGED wire
    \/ /\ \E t \in SessionTasks, op \in QueryOps, sql \in SessionSqls, params \in SessionParams :
               RawOp(t, op, sql, params)
       /\ AbandonStep
       /\ UNCHANGED wire
    \/ /\ \E t \in SessionTasks, outcome \in {"ok", "closed", "timeout", "other"} :
               TxIo(t, outcome)
       /\ AbandonStep
       /\ UNCHANGED wire
    \/ /\ \E t \in SessionTasks : FetchCached(t)
       /\ AbandonStep
       /\ UNCHANGED wire
    \/ /\ \E t \in SessionTasks, outcome \in {"ok", "closed", "timeout", "other"} :
               PrepareDone(t, outcome)
       /\ AbandonStep
       /\ UNCHANGED wire
    \/ /\ \E t \in SessionTasks, outcome \in {"ok", "closed", "timeout", "other"} :
               ExecDone(t, outcome)
       /\ AbandonStep
       /\ UNCHANGED wire
    \/ /\ \E t \in SessionTasks : Cancel(t)
       /\ AbandonStep
       /\ UNCHANGED wire
    \/ Drained
    \/ /\ \E t \in SessionTasks : Return(t)
       /\ AbandonStep
       /\ UNCHANGED wire

SpecX == Init /\ [][NextX]_vars

\* The step puts a statement on the connection.
Sends == \E t \in Tasks : Len(sent'[t]) > Len(sent[t])

\* C26: when a future is dropped with its statement in flight (the caller drops
\* it, or the socket timeout expires inside perform_io), the next statement is
\* put on the session only once the session is marked unhealthy or the
\* statement left in flight has been answered, and the step that drops the
\* future leaves the gauge as it is.
C26_UnhealthyOrDrained ==
    [][/\ Sends => (~abandoned \/ ~is_healthy)
       /\ (\E t \in Tasks : Dropped(t)) => gauge' = gauge]_vars

\* A statement goes to a healthy session while a timed-out one is unanswered.
C26_UsedWhileInFlight ==
    /\ abandoned
    /\ is_healthy
    /\ InFlight("t1")


\* ------------------------------------------------- claims on a failed begin
\* new has returned an error after its begin statement went through: the
\* isolation level after it was refused or its statement failed, or the reset
\* query failed.
FailedAfterBegin(t) ==
    /\ call[t].op = "begin"
    /\ pc[t] = "done"
    /\ result[t] # Ok
    /\ BeginIdx(t) # {}
    /\ \/ result[t].kind = "InvalidIsolationLevel"
       \/ \E i \in BeginIdx(t) : i < Len(sent[t])

C27_WitnessReset ==
    /\ FailedAfterBegin("t1")
    /\ pg_bouncer
    /\ sent["t1"] = <<SimpleQuery("BEGIN"), SimpleQuery("DEALLOCATE ALL")>>
    /\ result["t1"].kind = "DbError"
    /\ gauge = 0


\* ------------------------------------------------ claims on the shared cache
\* The types a call gives to prepare when it misses: those of its params for
\* query_raw_typed and execute_raw_typed, none for query_raw and execute_raw.
TypesGiven(c) ==
    IF c.op \in {"query_raw_typed", "execute_raw_typed"}
    THEN [len |-> c.params.len, ty |-> c.params.ty]
    ELSE [len |-> 0, ty |-> "none"]

\* The handle the cache holds for an SQL text.
Cached(cache, sql) ==
    LET i == CHOOSE i \in 1..Len(cache.entries) : cache.entries[i].sql = sql
    IN cache.entries[i]

\* C28: the cache holds at most one handle for an SQL text; a typed or untyped
\* call whose text is cached gets that handle and sends no prepare, whatever
\* types its own parameters have; a call whose text is not cached sends a
\* prepare with its own types (none, for the untyped operations), and the
\* handle it inserts carries those types.
C28_KeyedByTextAlone ==
    /\ [](\A i, j \in 1..Len(statement_cache.entries) :
            statement_cache.entries[i].sql = statement_cache.entries[j].sql => i = j)
    /\ [][\A t \in ConcTasks :
            /\ (pc[t] = "lock" /\ pc'[t] \in {"exec", "done", "prepare"}) =>
                  IF call[t].sql \in LruKeys(statement_cache)
                  THEN /\ stmt'[t] = Cached(statement_cache, call[t].sql)
                       /\ Prepares(sent'[t]) = {}
                  ELSE /\ pc'[t] = "prepare"
                       /\ sent'[t] = <<Stmt("prepare", call[t].sql, TypesGiven(call[t]).len,
                                            TypesGiven(call[t]).ty)>>
            /\ (pc[t] = "prepare" /\ stmt'[t] # NoStmt) =>
                  /\ stmt'[t].types = TypesGiven(call[t])
                  /\ statement_cache.capacity > 0 =>
                        Cached(statement_cache', call[t].sql) = stmt'[t]]_vars

\* A handle prepared with int4 serves an untyped call and a typed call whose
\* parameter is text.
C28_Witness ==
    /\ call["t1"].op = "query_raw"
    /\ call["t2"].op = "query_raw_typed"
    /\ call["t2"].params = Params(1, "text")
    /\ pc["t1"] = "exec" /\ pc["t2"] = "exec"
    /\ stmt["t1"] = stmt["t2"]
    /\ stmt["t2"].types = [len |-> 1, ty |-> "int4"]
    /\ Prepares(sent["t1"]) = {} /\ Prepares(sent["t2"]) = {}
    /\ sent["t2"] = <<Stmt("query", "SELECT $1", 1, "text")>>


\* ------------------------------------------------- the cache mutex, with time
\* The runtime polls a task that can take the mutex, and the awaited prepare
\* ends.  futures::lock::Mutex wakes a waiter at each unlock and hands the
\* mutex to whoever locks first: a waiter has no more than weak fairness.
Acquire(t) == FetchCached(t) /\ WireStep /\ UNCHANGED abandoned
PrepareEnds(t) ==
    /\ \E outcome \in {"ok", "closed", "timeout", "other"} : PrepareDone(t, outcome)
    /\ WireStep
    /\ UNCHANGED abandoned
SpecCFair ==
    SpecC /\ \A t \in ConcTasks : WF_vars(Acquire(t)) /\ WF_vars(PrepareEnds(t))

\* The mutex is held only while its holder awaits a prepare, every end of a
\* prepare frees it, and a prepare that returned no handle left the cache as
\* it was.
MutexReleased ==
    /\ [](\A t \in Tasks : lock = t => pc[t] = "prepare")
    /\ [][\A t \in Tasks :
            (pc[t] = "prepare" /\ pc'[t] # "prepare") =>
                /\ lock = t /\ lock' = "none"
                /\ stmt'[t] = NoStmt => statement_cache' = statement_cache]_vars

\* C29 as stated: fetch_cached frees the mutex on every exit and a failed
\* prepare leaves the cache unchanged; as every prepare in flight ends, a task
\* that waits for the mutex in fetch_cached eventually gets past the wait.
C29_WaiterAcquires ==
    /\ MutexReleased
    /\ \A t \in ConcTasks : (pc[t] = "lock") ~> (pc[t] # "lock")

\* C29: fetch_cached frees the mutex on every exit and a failed prepare leaves
\* the cache unchanged; as every prepare in flight ends, a held mutex is
\* eventually free, and a task that waits for it gets past the wait unless the
\* other callers take the mutex again and again.
C29_MutexEventuallyFree ==
    /\ MutexReleased
    /\ \A t \in ConcTasks : (lock = t) ~> (lock = "none")
    /\ \A t \in ConcTasks :
          []<>(pc[t] # "lock" \/ \E u \in ConcTasks \ {t} : lock = u)

\* t2 had waited while t1 held the mutex; t1's prepare failed, the mutex was
\* freed with the cache still empty, and t2 holds it now for its own prepare.
C29_Witness ==
    /\ pc["t1"] = "done"
    /\ result["t1"].kind = "DbError"
    /\ Prepares(sent["t1"]) # {}
    /\ pc["t2"] = "prepare"
    /\ lock = "t2"
    /\ statement_cache.capacity > 0
    /\ statement_cache.entries = <<>>

====
